---- MODULE Spec2Model ----
(***************************************************************************)
(* Model of the pai-voice-server setup tool: the component manifest, the   *)
(* metadata record with its hash-based customization detection, the        *)
(* dry-run-aware file operations, the LaunchAgent controller and the       *)
(* install / update / uninstall / start / stop / restart commands.         *)
(*                                                                         *)
(* Every command is one action.  A command is a deterministic function of  *)
(* the machine state (filesystem, supervisor table, daemon), its options   *)
(* and the behaviour of the environment during the call (which filesystem  *)
(* or launchctl step fails, whether the daemon boots, whether it keeps     *)
(* answering after an unload); the environment behaviour is drawn with \E. *)
(***************************************************************************)
EXTENDS Integers, Sequences, FiniteSets, TLC

VARIABLES base, dir, files, meta, plist, loaded, healthy, fbackups, dbackups,
          logFile, pkgVersion, now, faulty, last, wait, race, cli

vars == <<base, dir, files, meta, plist, loaded, healthy, fbackups, dbackups,
          logFile, pkgVersion, now, faulty, last, wait, race, cli>>

(***************************************************************************)
(* Bounds                                                                  *)
(***************************************************************************)
\* number of package releases the user can have on the machine
MaxVersion == 2
\* number of mutating command runs (each takes one timestamp)
MaxClock == 2
\* number of command runs during which something goes wrong: a filesystem or
\* launchctl step fails, the daemon does not boot, the daemon outlives its
\* unload
MaxFaults == 1
\* the longest timeout waitForStart is called with, in seconds
MaxTimeout == 4
\* number of words on the command line
MaxArgs == 2

(***************************************************************************)
(* Program constants                                                       *)
(***************************************************************************)
StartTimeout == 10
PollInterval == 1
\* seconds after which the health request of a probe gives up
ProbeMax == 2

(***************************************************************************)
(* Manifest                                                                *)
(***************************************************************************)
Components == <<"server", "voices">>

CompNames == {"server", "voices"}

getComponent(c) ==
  IF c = "server"
  THEN [name |-> "server", type |-> "required", preserveOnUpdate |-> FALSE]
  ELSE [name |-> "voices", type |-> "optional", preserveOnUpdate |-> TRUE]

(***************************************************************************)
(* File contents and hashes.  The bytes of a file are either the bytes     *)
(* shipped by release v of the package or bytes written by the user.       *)
(***************************************************************************)
NoBytes == <<"none", 0>>

PkgBytes(v) == <<"pkg", v>>

UserBytes == <<"user", 1>>

NoFile == [exists |-> FALSE, bytes |-> NoBytes]

FileOf(b) == [exists |-> TRUE, bytes |-> b]

NullHash == <<"null", "none", 0>>

\* sha256 over the raw bytes; null when the file cannot be read
calculateFileHash(f) ==
  IF f.exists THEN <<"sha256", f.bytes[1], f.bytes[2]>> ELSE NullHash

(***************************************************************************)
(* The metadata record (.metadata.json inside the install directory).      *)
(* kind: "absent" no file, "corrupt" not parseable, "empty" parseable but  *)
(* without the expected fields, "ok" a record written by the tool.         *)
(***************************************************************************)
NoCompMeta ==
  [present |-> FALSE, version |-> 0, hash |-> NullHash,
   installDate |-> 0, lastUpdate |-> 0]

NoComps == [c \in CompNames |-> NoCompMeta]

MetaOf(k) ==
  [kind |-> k, version |-> 0, installDate |-> 0, lastUpdate |-> 0,
   comps |-> NoComps]

NoMeta == MetaOf("absent")

(***************************************************************************)
(* The machine state as one value                                          *)
(***************************************************************************)
World ==
  [base |-> base, dir |-> dir, files |-> files, meta |-> meta,
   plist |-> plist, loaded |-> loaded, healthy |-> healthy,
   fbackups |-> fbackups, dbackups |-> dbackups, logFile |-> logFile]

(***************************************************************************)
(* Environment behaviour during one call                                   *)
(***************************************************************************)
NeverBoots == 0 - 1

FaultNames ==
  {"env", "base", "mkdir", "src_server", "src_voices", "gone_server",
   "gone_voices", "copy_server", "copy_voices", "backup", "plist", "meta",
   "load", "unload", "plistrm", "cp", "rm", "logrm", "health"}

Ok(e, f) == f \notin e.faults

EnvOf(F, b, l) == [faults |-> F, boot |-> b, lingers |-> l]

BootChoices == {0, NeverBoots}

\* every step succeeds, the daemon boots at once and dies when unloaded
Nominal == EnvOf({}, 0, FALSE)

\* the behaviours a call is run under: at most one thing goes wrong, which is
\* a step of F failing, a boot behaviour of B or a lingering daemon (L)
Envs(F, B, L) ==
  {EnvOf(S, 0, FALSE) : S \in {{}} \cup {{f} : f \in F}}
    \cup {EnvOf({}, b, FALSE) : b \in B}
    \cup {EnvOf({}, 0, l) : l \in L}

(***************************************************************************)
(* Log of the steps of a call                                              *)
(***************************************************************************)
Ev(ev, c, ok, cmd) == [ev |-> ev, c |-> c, ok |-> ok, cmd |-> cmd]

Out(w, ret, log) == [st |-> w, ret |-> ret, log |-> log]

(***************************************************************************)
(* File operations (lib/utils/file-ops)                                    *)
(***************************************************************************)
SrcFault(c) == IF c = "server" THEN "src_server" ELSE "src_voices"

\* the resolved source file is gone by the time copyFile looks for it
GoneFault(c) == IF c = "server" THEN "gone_server" ELSE "gone_voices"

CopyFault(c) == IF c = "server" THEN "copy_server" ELSE "copy_voices"

\* paths.resolveSourcePath: throws when the package does not hold the file
resolveSourcePath(e, c) == IF Ok(e, SrcFault(c)) THEN "path" ELSE "throw"

\* copyFile(source, target, {dryRun, overwrite: true}); v is the release
\* whose bytes the resolved source holds
copyFile(w, e, c, v, dry) ==
  IF dry THEN Out(w, "true", <<>>)
  ELSE IF ~Ok(e, GoneFault(c))
       THEN Out(w, "throw", <<Ev("copy", c, FALSE, "source_missing")>>)
  ELSE IF ~Ok(e, CopyFault(c))
       THEN Out(w, "throw", <<Ev("copy", c, FALSE, "")>>)
       ELSE Out([w EXCEPT !.base = TRUE, !.dir = TRUE,
                          !.files[c] = FileOf(PkgBytes(v))],
                "true", <<Ev("copy", c, TRUE, "")>>)

\* ensureDirectoryExists(installPath, {dryRun})
ensureDirectoryExists(w, e, dry) ==
  IF w.dir THEN Out(w, "false", <<>>)
  ELSE IF dry THEN Out(w, "true", <<>>)
  ELSE IF ~Ok(e, "mkdir") THEN Out(w, "throw", <<Ev("mkdir", "", FALSE, "")>>)
  ELSE Out([w EXCEPT !.base = TRUE, !.dir = TRUE], "true",
           <<Ev("mkdir", "", TRUE, "")>>)

\* backupFile(target, {dryRun}): copy to target.backup-<timestamp t>
backupFile(w, e, c, t, dry) ==
  IF ~w.files[c].exists THEN Out(w, "null", <<>>)
  ELSE IF dry THEN Out(w, "path", <<>>)
  ELSE IF ~Ok(e, "backup") THEN Out(w, "null", <<Ev("backup", c, FALSE, "")>>)
  ELSE Out([w EXCEPT !.fbackups =
                       @ \cup {[c |-> c, ts |-> t, bytes |-> w.files[c].bytes]}],
           "path", <<Ev("backup", c, TRUE, "")>>)

\* removeDirectory without the dry-run early return
removeDirectoryIgnoresDryRun(w, e, dry) ==
  IF ~w.dir THEN Out(w, "false", <<>>)
  ELSE IF ~Ok(e, "rm") THEN Out(w, "throw", <<Ev("rmdir", "", FALSE, "")>>)
  ELSE Out([w EXCEPT !.dir = FALSE,
                     !.files = [c \in CompNames |-> NoFile],
                     !.meta = NoMeta, !.fbackups = {}],
           "true", <<Ev("rmdir", "", TRUE, "")>>)

\* removeDirectory(installPath, {dryRun}): the record, the component files
\* and the file backups all live inside the install directory
removeDirectory(w, e, dry) ==
  IF ~w.dir THEN Out(w, "false", <<>>)
  ELSE IF dry THEN Out(w, "true", <<>>)
  ELSE IF ~Ok(e, "rm") THEN Out(w, "throw", <<Ev("rmdir", "", FALSE, "")>>)
  ELSE Out([w EXCEPT !.dir = FALSE,
                     !.files = [c \in CompNames |-> NoFile],
                     !.meta = NoMeta, !.fbackups = {}],
           "true", <<Ev("rmdir", "", TRUE, "")>>)

\* removeFile(logPath, {dryRun})
removeFile(w, e, dry) ==
  IF ~w.logFile THEN Out(w, "false", <<>>)
  ELSE IF dry THEN Out(w, "true", <<>>)
  ELSE IF ~Ok(e, "logrm") THEN Out(w, "throw", <<Ev("rmlog", "", FALSE, "")>>)
  ELSE Out([w EXCEPT !.logFile = FALSE], "true", <<Ev("rmlog", "", TRUE, "")>>)

\* writeJSON(metadataPath, data): fails when the directory is missing or the
\* write fails
writeJSON(w, e, m) ==
  IF w.dir /\ Ok(e, "meta")
  THEN Out([w EXCEPT !.meta = m], "true", <<Ev("writeMeta", "", TRUE, "")>>)
  ELSE Out(w, "throw", <<Ev("writeMeta", "", FALSE, "")>>)

(***************************************************************************)
(* Metadata (lib/core/metadata.js)                                         *)
(***************************************************************************)
\* readMetadata() returns null for a missing or unparseable file
readMetadataIsNull(w) == w.meta.kind \in {"absent", "corrupt"}

\* isInstalled looking at the record file only
isInstalledByRecordOnly(w) == w.meta.kind # "absent"

\* isInstalled that also wants the record to be readable
isInstalledNeedsReadableRecord(w) ==
  ~readMetadataIsNull(w) /\ w.files["server"].exists

isInstalled(w) == w.meta.kind # "absent" /\ w.files["server"].exists

\* metadata.version, null or undefined (0) when there is none
getInstalledVersion(w) ==
  IF w.meta.kind = "ok" THEN w.meta.version ELSE 0

\* metadata.installedComponents is undefined: indexing it throws
getCustomizedFilesThrows(w) == w.meta.kind = "empty"

\* getCustomizedFiles without the check that the target file still exists
getCustomizedFilesFlagsMissing(w) ==
  IF readMetadataIsNull(w) THEN {}
  ELSE {c \in CompNames :
          /\ w.meta.comps[c].present
          /\ calculateFileHash(w.files[c]) # w.meta.comps[c].hash}

getCustomizedFiles(w) ==
  IF readMetadataIsNull(w) THEN {}
  ELSE {c \in CompNames :
          /\ w.meta.comps[c].present
          /\ w.files[c].exists
          /\ calculateFileHash(w.files[c]) # w.meta.comps[c].hash}

NewCompMeta(f, v, t) ==
  [present |-> TRUE, version |-> v, hash |-> calculateFileHash(f),
   installDate |-> t, lastUpdate |-> 0]

\* createMetadata that builds the record and never writes it
createMetadataUnwritten(w, e, t, v, dry) == Out(w, "ok", <<>>)

\* createMetadata({dryRun}) at time t, package release v
createMetadata(w, e, t, v, dry) ==
  LET m == [kind |-> "ok", version |-> v, installDate |-> t, lastUpdate |-> 0,
            comps |-> [c \in CompNames |->
                         IF w.files[c].exists
                         THEN NewCompMeta(w.files[c], v, t) ELSE NoCompMeta]]
  IN IF dry THEN Out(w, "ok", <<>>) ELSE writeJSON(w, e, m)

\* refreshCompMeta keeping the hash of a component that already has a record
refreshCompMetaKeepsHash(cm, f, v, t) ==
  IF ~cm.present THEN NewCompMeta(f, v, t)
  ELSE [cm EXCEPT !.version = v, !.lastUpdate = t]

\* the record of one component whose target file f exists, from its old
\* record cm
refreshCompMeta(cm, f, v, t) ==
  IF ~cm.present THEN NewCompMeta(f, v, t)
  ELSE [cm EXCEPT !.version = v, !.hash = calculateFileHash(f),
                  !.lastUpdate = t]

\* updateAfterInstall that always starts from a new record, as it does for
\* isUpdate = false
updateAfterInstallFresh(w, e, t, v, dry, isUpdate) ==
  LET m0 == [kind |-> "ok", version |-> v, installDate |-> t,
             lastUpdate |-> 0, comps |-> NoComps]
      m1 == [m0 EXCEPT !.comps =
               [c \in CompNames |->
                  IF ~w.files[c].exists THEN m0.comps[c]
                  ELSE refreshCompMeta(m0.comps[c], w.files[c], v, t)]]
  IN IF dry THEN Out(w, "ok", <<>>) ELSE writeJSON(w, e, m1)

\* updateAfterInstall({dryRun, isUpdate}) at time t, package release v
updateAfterInstall(w, e, t, v, dry, isUpdate) ==
  LET fresh == readMetadataIsNull(w) \/ ~isUpdate
      m0 == IF fresh
            THEN [kind |-> "ok", version |-> v, installDate |-> t,
                  lastUpdate |-> 0, comps |-> NoComps]
            ELSE [w.meta EXCEPT !.version = v, !.lastUpdate = t]
      m1 == [m0 EXCEPT !.comps =
               [c \in CompNames |->
                  IF ~w.files[c].exists THEN m0.comps[c]
                  ELSE refreshCompMeta(m0.comps[c], w.files[c], v, t)]]
  IN IF m0.kind = "empty" /\ \E c \in CompNames : w.files[c].exists
     THEN Out(w, "throw", <<>>)
     ELSE IF dry THEN Out(w, "ok", <<>>) ELSE writeJSON(w, e, m1)

(***************************************************************************)
(* LaunchAgent (lib/core/launchagent.js)                                   *)
(***************************************************************************)
createPlist(w, e, dry) ==
  IF dry THEN Out(w, "true", <<>>)
  ELSE IF ~Ok(e, "plist") THEN Out(w, "throw", <<Ev("plist", "", FALSE, "")>>)
  ELSE Out([w EXCEPT !.plist = TRUE], "true", <<Ev("plist", "", TRUE, "")>>)

removePlist(w, e, dry) ==
  IF ~w.plist THEN Out(w, "false", <<>>)
  ELSE IF dry THEN Out(w, "true", <<>>)
  ELSE IF ~Ok(e, "plistrm")
       THEN Out(w, "throw", <<Ev("rmplist", "", FALSE, "")>>)
       ELSE Out([w EXCEPT !.plist = FALSE], "true",
                <<Ev("rmplist", "", TRUE, "")>>)

\* what `launchctl load` does: "already" and "error" are non-zero exits
launchctlLoad(w, e) ==
  IF w.loaded THEN Out(w, "already", <<>>)
  ELSE IF Ok(e, "load")
       THEN Out([w EXCEPT !.loaded = TRUE, !.logFile = TRUE], "ok", <<>>)
       ELSE Out(w, "error", <<>>)

\* what `launchctl unload` does
launchctlUnload(w, e) ==
  IF ~w.loaded THEN Out(w, "notfound", <<>>)
  ELSE IF Ok(e, "unload")
       THEN Out([w EXCEPT !.loaded = FALSE, !.healthy = @ /\ e.lingers],
                "ok", <<>>)
       ELSE Out(w, "error", <<>>)

\* exec(command, {dryRun, silent, ignoreError}): "throw" or the exit status
exec(cmdResult, ignoreError) ==
  IF cmdResult \in {"ok"} THEN "success"
  ELSE IF ignoreError THEN "failure" ELSE "throw"

\* load({dryRun})
\* load that takes every non-zero exit of launchctl for a failure
loadRejectsAlreadyLoaded(w, e, dry) ==
  IF ~w.plist THEN Out(w, "throw", <<>>)
  ELSE IF dry THEN Out(w, "true", <<>>)
  ELSE LET c == launchctlLoad(w, e)
       IN IF c.ret = "ok"
          THEN Out(c.st, "true", <<Ev("load", "", TRUE, c.ret)>>)
          ELSE Out(c.st, "throw", <<Ev("load", "", FALSE, c.ret)>>)

load(w, e, dry) ==
  IF ~w.plist THEN Out(w, "throw", <<>>)
  ELSE IF dry THEN Out(w, "true", <<>>)
  ELSE LET c == launchctlLoad(w, e)
           x == exec(c.ret, TRUE)
       IN IF x = "throw"
          THEN IF c.ret = "already"
               THEN Out(c.st, "true", <<Ev("load", "", TRUE, c.ret)>>)
               ELSE Out(c.st, "throw", <<Ev("load", "", FALSE, c.ret)>>)
          ELSE Out(c.st, "true", <<Ev("load", "", TRUE, c.ret)>>)

\* unload({dryRun})
unload(w, e, dry) ==
  IF ~w.plist THEN Out(w, "false", <<>>)
  ELSE IF dry THEN Out(w, "true", <<>>)
  ELSE LET c == launchctlUnload(w, e)
           x == exec(c.ret, TRUE)
       IN IF x = "throw"
          THEN IF c.ret = "notfound"
               THEN Out(c.st, "true", <<Ev("unload", "", TRUE, c.ret)>>)
               ELSE Out(c.st, "throw", <<Ev("unload", "", FALSE, c.ret)>>)
          ELSE Out(c.st, "true", <<Ev("unload", "", TRUE, c.ret)>>)

isLoaded(w) == w.loaded

isRunning(w) == w.healthy

getStatus(w) ==
  [loaded |-> isLoaded(w), running |-> isRunning(w), plistExists |-> w.plist,
   status |-> IF isRunning(w) THEN "running"
              ELSE IF isLoaded(w) THEN "loaded but not responding"
              ELSE "stopped"]

\* the health probe s seconds into a wait: a server that already answers
\* keeps answering, a loaded daemon answers from e.boot on
ProbeAt(w, e, s) ==
  w.healthy \/ (w.loaded /\ e.boot # NeverBoots /\ s >= e.boot)

RECURSIVE Poll(_, _, _, _)
Poll(w, e, timeout, s) ==
  IF ~(s * 1000 < timeout * 1000) THEN FALSE
  ELSE IF ProbeAt(w, e, s) THEN TRUE
  ELSE Poll(w, e, timeout, s + PollInterval)

\* waitForStart(timeout)
waitForStart(w, e, timeout) ==
  LET r == Poll(w, e, timeout, 0)
  IN Out([w EXCEPT !.healthy = r], IF r THEN "true" ELSE "false",
         <<Ev("wait", "", r, "")>>)

(***************************************************************************)
(* Environment validation (lib/core/environment.js)                        *)
(***************************************************************************)
\* checkDirectoryPermissions('~/.claude'): creates the directory when it is
\* missing, then writes and deletes a test file
checkDirectoryPermissions(w, e) ==
  IF ~Ok(e, "base") THEN Out(w, "not_writable", <<>>)
  ELSE IF w.base THEN Out(w, "writable", <<>>)
  ELSE Out([w EXCEPT !.base = TRUE], "writable", <<Ev("mkbase", "", TRUE, "")>>)

\* validateEnvironment(): every check is evaluated, then the errors collected
validateEnvironment(w, e) ==
  LET p == checkDirectoryPermissions(w, e)
  IN Out(p.st,
         IF Ok(e, "env") /\ p.ret = "writable" THEN "valid" ELSE "invalid",
         p.log)

(***************************************************************************)
(* Results of the commands                                                 *)
(***************************************************************************)
Res(success, reason) == [success |-> success, reason |-> reason, threw |-> FALSE]

\* an exception that leaves the command (the CLI turns it into exit code 1)
Thrown == [success |-> FALSE, reason |-> "exception", threw |-> TRUE]

R(w, success, reason, log) ==
  [st |-> w, res |-> Res(success, reason), log |-> log, customized |-> {},
   preserved |-> {}, updated |-> {}, wasRunning |-> FALSE]

Threw(w, log) == [R(w, FALSE, "exception", log) EXCEPT !.res = Thrown]

\* launchagent.load({dryRun}) followed, in a real run, by waitForStart(10)
loadAndWait(w, e, dry) ==
  LET ld == load(w, e, dry)
  IN IF ld.ret = "throw" \/ dry THEN ld
     ELSE LET wt == waitForStart(ld.st, e, StartTimeout)
          IN Out(wt.st, wt.ret, ld.log \o wt.log)

(***************************************************************************)
(* install (lib/commands/installer)                                        *)
(***************************************************************************)
Acc(w, log, done, failed) ==
  [st |-> w, log |-> log, done |-> done, failed |-> failed]

\* installComponent treating a failed optional component like a required one
installComponentAbortsOnOptional(w, e, v, dry, c) ==
  LET r == IF resolveSourcePath(e, c) = "throw"
           THEN Out(w, "throw", <<Ev("resolve", c, FALSE, "")>>)
           ELSE copyFile(w, e, c, v, dry)
  IN Out(r.st, IF r.ret # "throw" THEN "installed" ELSE "abort", r.log)

\* installComponent treating a failed required component like an optional one
installComponentSkipsRequired(w, e, v, dry, c) ==
  LET r == IF resolveSourcePath(e, c) = "throw"
           THEN Out(w, "throw", <<Ev("resolve", c, FALSE, "")>>)
           ELSE copyFile(w, e, c, v, dry)
  IN Out(r.st, IF r.ret # "throw" THEN "installed" ELSE "skipped", r.log)

\* the try/catch around one component: "installed", "skipped" (warning) or
\* "abort" (a required component failed)
installComponent(w, e, v, dry, c) ==
  LET r == IF resolveSourcePath(e, c) = "throw"
           THEN Out(w, "throw", <<Ev("resolve", c, FALSE, "")>>)
           ELSE copyFile(w, e, c, v, dry)
  IN Out(r.st,
         IF r.ret # "throw" THEN "installed"
         ELSE IF getComponent(c).type = "required" THEN "abort" ELSE "skipped",
         r.log)

RECURSIVE installComponents(_, _, _, _, _)
installComponents(acc, e, v, dry, i) ==
  IF i > Len(Components) \/ acc.failed # "" THEN acc
  ELSE LET c == Components[i]
           r == installComponent(acc.st, e, v, dry, c)
       IN installComponents(
            Acc(r.st, acc.log \o r.log,
                IF r.ret = "installed" THEN acc.done \cup {c} ELSE acc.done,
                IF r.ret = "abort" THEN c ELSE ""),
            e, v, dry, i + 1)

install(w, e, t, v, dry, force) ==
  IF isInstalled(w) /\ ~force THEN R(w, FALSE, "already_installed", <<>>)
  ELSE
  LET env == validateEnvironment(w, e) IN
  IF env.ret # "valid"
  THEN R(env.st, FALSE, "environment_check_failed", env.log)
  ELSE
  LET d == ensureDirectoryExists(env.st, e, dry) IN
  IF d.ret = "throw"
  THEN R(d.st, FALSE, "directory_creation_failed", env.log \o d.log)
  ELSE
  LET l == installComponents(Acc(d.st, env.log \o d.log, {}, ""), e, v, dry, 1) IN
  IF l.failed # ""
  THEN R(l.st, FALSE, "component_install_failed", l.log)
  ELSE
  LET p == createPlist(l.st, e, dry) IN
  IF p.ret = "throw"
  THEN R(p.st, FALSE, "launchagent_creation_failed", l.log \o p.log)
  ELSE
  LET s == loadAndWait(p.st, e, dry)
      m == createMetadata(s.st, e, t, v, dry)
  IN [R(m.st, TRUE, "ok", l.log \o p.log \o s.log \o m.log)
        EXCEPT !.updated = l.done]

(***************************************************************************)
(* update (lib/commands/updater.js)                                        *)
(***************************************************************************)
UAcc(w, log, updated, preserved, failed) ==
  [st |-> w, log |-> log, updated |-> updated, preserved |-> preserved,
   failed |-> failed]

\* updateComponent without the preservation branch: a customized
\* preservable file is backed up and overwritten like any other
updateComponentOverwrites(w, e, t, v, dry, customized, c) ==
  LET isCustomized == c \in customized
      b == IF isCustomized /\ ~dry THEN backupFile(w, e, c, t, dry)
           ELSE Out(w, "none", <<>>)
      r == IF resolveSourcePath(e, c) = "throw"
           THEN Out(b.st, "throw", <<Ev("resolve", c, FALSE, "")>>)
           ELSE copyFile(b.st, e, c, v, dry)
  IN Out(r.st,
         IF r.ret # "throw" THEN "updated"
         ELSE IF getComponent(c).type = "required" THEN "abort"
         ELSE "skipped",
         b.log \o r.log)

\* the try/catch around one component: "preserved", "updated", "skipped"
\* (warning) or "abort" (a required component failed)
updateComponent(w, e, t, v, dry, customized, c) ==
  LET isCustomized == c \in customized
  IN IF isCustomized /\ getComponent(c).preserveOnUpdate
     THEN Out(w, "preserved", <<Ev("preserve", c, TRUE, "")>>)
     ELSE LET b == IF isCustomized /\ ~dry THEN backupFile(w, e, c, t, dry)
                   ELSE Out(w, "none", <<>>)
              r == IF resolveSourcePath(e, c) = "throw"
                   THEN Out(b.st, "throw", <<Ev("resolve", c, FALSE, "")>>)
                   ELSE copyFile(b.st, e, c, v, dry)
          IN Out(r.st,
                 IF r.ret # "throw" THEN "updated"
                 ELSE IF getComponent(c).type = "required" THEN "abort"
                 ELSE "skipped",
                 b.log \o r.log)

RECURSIVE updateComponents(_, _, _, _, _, _, _)
updateComponents(acc, e, t, v, dry, customized, i) ==
  IF i > Len(Components) \/ acc.failed # "" THEN acc
  ELSE LET c == Components[i]
           r == updateComponent(acc.st, e, t, v, dry, customized, c)
           lg == acc.log \o r.log
       IN updateComponents(
            UAcc(r.st, lg,
                 IF r.ret = "updated" THEN acc.updated \cup {c}
                 ELSE acc.updated,
                 IF r.ret = "preserved" THEN acc.preserved \cup {c}
                 ELSE acc.preserved,
                 IF r.ret = "abort" THEN c ELSE ""),
            e, t, v, dry, customized, i + 1)

\* update without the version check: it always goes on to the components
updateAlwaysProceeds(w, e, t, v, dry, force) ==
  IF ~isInstalled(w) THEN R(w, FALSE, "not_installed", <<>>)
  ELSE IF getCustomizedFilesThrows(w) THEN Threw(w, <<>>)
  ELSE
  LET customized == getCustomizedFiles(w)
      wasRunning == isRunning(w)
      u == IF wasRunning THEN unload(w, e, dry) ELSE Out(w, "none", <<>>)
      l == updateComponents(UAcc(u.st, u.log, {}, {}, ""), e, t, v, dry,
                            customized, 1)
  IN IF l.failed # ""
     THEN [R(l.st, FALSE, "update_failed", l.log)
             EXCEPT !.customized = customized, !.wasRunning = wasRunning,
                    !.updated = l.updated, !.preserved = l.preserved]
     ELSE
     LET p == createPlist(l.st, e, dry)
         m == updateAfterInstall(p.st, e, t, v, dry, TRUE)
         s == IF wasRunning THEN loadAndWait(m.st, e, dry)
              ELSE Out(m.st, "none", <<>>)
     IN [R(s.st, TRUE, "ok", l.log \o p.log \o m.log \o s.log)
           EXCEPT !.customized = customized, !.wasRunning = wasRunning,
                  !.updated = l.updated, !.preserved = l.preserved]

update(w, e, t, v, dry, force) ==
  IF ~isInstalled(w) THEN R(w, FALSE, "not_installed", <<>>)
  ELSE IF getInstalledVersion(w) = v /\ ~force
  THEN R(w, TRUE, "already_up_to_date", <<>>)
  ELSE IF getCustomizedFilesThrows(w) THEN Threw(w, <<>>)
  ELSE
  LET customized == getCustomizedFiles(w)
      wasRunning == isRunning(w)
      u == IF wasRunning THEN unload(w, e, dry) ELSE Out(w, "none", <<>>)
      l == updateComponents(UAcc(u.st, u.log, {}, {}, ""), e, t, v, dry,
                            customized, 1)
  IN IF l.failed # ""
     THEN [R(l.st, FALSE, "update_failed", l.log)
             EXCEPT !.customized = customized, !.wasRunning = wasRunning,
                    !.updated = l.updated, !.preserved = l.preserved]
     ELSE
     LET p == createPlist(l.st, e, dry)
         m == updateAfterInstall(p.st, e, t, v, dry, TRUE)
         s == IF wasRunning THEN loadAndWait(m.st, e, dry)
              ELSE Out(m.st, "none", <<>>)
     IN [R(s.st, TRUE, "ok", l.log \o p.log \o m.log \o s.log)
           EXCEPT !.customized = customized, !.wasRunning = wasRunning,
                  !.updated = l.updated, !.preserved = l.preserved]

(***************************************************************************)
(* uninstall (lib/commands/uninstaller.js)                                 *)
(***************************************************************************)
\* backupDirectory copying the install directory as it is after its removal
backupDirectoryAfterRemoval(w, e, t) ==
  IF ~w.dir THEN Out(w, "none", <<>>)
  ELSE IF ~Ok(e, "cp") THEN Out(w, "throw", <<Ev("cpdir", "", FALSE, "")>>)
  ELSE Out([w EXCEPT !.dbackups =
                       @ \cup {[ts |-> t,
                                files |-> [c \in CompNames |-> NoFile],
                                meta |-> NoMeta]}],
           "done", <<Ev("cpdir", "", TRUE, "")>>)

\* fs.cpSync(installPath, installPath.backup-<t>, {recursive: true})
backupDirectory(w, e, t) ==
  IF ~w.dir THEN Out(w, "none", <<>>)
  ELSE IF ~Ok(e, "cp") THEN Out(w, "throw", <<Ev("cpdir", "", FALSE, "")>>)
  ELSE Out([w EXCEPT !.dbackups =
                       @ \cup {[ts |-> t, files |-> w.files, meta |-> w.meta]}],
           "done", <<Ev("cpdir", "", TRUE, "")>>)

uninstall(w, e, t, dry, preserveLogs, backup) ==
  IF ~isInstalled(w) THEN R(w, FALSE, "not_installed", <<>>)
  ELSE IF getCustomizedFilesThrows(w) THEN Threw(w, <<>>)
  ELSE
  LET customized == getCustomizedFiles(w)
      serviceStatus == getStatus(w)
      u == IF serviceStatus.running \/ serviceStatus.loaded
           THEN unload(w, e, dry) ELSE Out(w, "none", <<>>)
      p == removePlist(u.st, e, dry)
      b == IF backup /\ ~dry /\ customized # {}
           THEN backupDirectory(p.st, e, t) ELSE Out(p.st, "none", <<>>)
      r == IF b.ret = "throw" THEN Out(b.st, "throw", <<>>)
           ELSE removeDirectory(b.st, e, dry)
      lg == u.log \o p.log \o b.log \o r.log
  IN IF r.ret = "throw"
     THEN [R(r.st, FALSE, "removal_failed", lg) EXCEPT !.customized = customized]
     ELSE LET f == IF preserveLogs THEN Out(r.st, "none", <<>>)
                   ELSE removeFile(r.st, e, dry)
          IN [R(f.st, TRUE, "ok", lg \o f.log) EXCEPT !.customized = customized]

(***************************************************************************)
(* start, stop, restart (lib/commands/start, stop.js, restart)             *)
(***************************************************************************)
start(w, e, dry) ==
  IF ~isInstalled(w) THEN R(w, FALSE, "not_installed", <<>>)
  ELSE IF getStatus(w).running /\ ~dry THEN R(w, TRUE, "already_running", <<>>)
  ELSE LET s == loadAndWait(w, e, dry)
       IN IF s.ret = "throw" THEN R(s.st, FALSE, "start_failed", s.log)
          ELSE IF dry THEN R(s.st, TRUE, "dry_run", s.log)
          ELSE IF s.ret = "true" THEN R(s.st, TRUE, "ok", s.log)
          ELSE R(s.st, FALSE, "start_timeout", s.log)

stop(w, e, dry) ==
  IF ~isInstalled(w) THEN R(w, FALSE, "not_installed", <<>>)
  ELSE IF ~getStatus(w).running /\ ~dry
  THEN R(w, TRUE, "already_stopped", <<>>)
  ELSE LET u == unload(w, e, dry)
       IN IF u.ret = "throw" THEN R(u.st, FALSE, "stop_failed", u.log)
          ELSE IF dry THEN R(u.st, TRUE, "dry_run", u.log)
          ELSE IF ~getStatus(u.st).running THEN R(u.st, TRUE, "ok", u.log)
          ELSE R(u.st, FALSE, "stop_incomplete", u.log)

\* restart going on to start whatever stop returned
restartIgnoresStop(w, e, dry) ==
  LET stopResult == stop(w, e, dry)
      startResult == start(stopResult.st, e, dry)
      lg == stopResult.log \o <<Ev("start", "", TRUE, "")>>
              \o startResult.log
  IN IF ~startResult.res.success
     THEN R(startResult.st, FALSE, "start_failed", lg)
     ELSE R(startResult.st, TRUE, "ok", lg)

restart(w, e, dry) ==
  LET stopResult == stop(w, e, dry)
  IN IF ~stopResult.res.success /\ stopResult.res.reason # "already_stopped"
     THEN R(stopResult.st, FALSE, "stop_failed", stopResult.log)
     ELSE LET startResult == start(stopResult.st, e, dry)
              lg == stopResult.log \o <<Ev("start", "", TRUE, "")>>
                      \o startResult.log
          IN IF ~startResult.res.success
             THEN R(startResult.st, FALSE, "start_failed", lg)
             ELSE R(startResult.st, TRUE, "ok", lg)

(***************************************************************************)
(* verify (lib/commands/verify)                                            *)
(***************************************************************************)
Issue(c, what) == Ev("issue", c, FALSE, what)

Warning(c, what) == Ev("warning", c, FALSE, what)

\* verifyComponent raising an issue for every missing file
verifyComponentStrict(w, c) ==
  IF w.files[c].exists THEN <<>> ELSE <<Issue(c, "missing")>>

\* the check of one component's target file
verifyComponent(w, c) ==
  IF w.files[c].exists THEN <<>>
  ELSE IF getComponent(c).type = "required" THEN <<Issue(c, "missing")>>
  ELSE <<Warning(c, "missing")>>

RECURSIVE verifyComponents(_, _)
verifyComponents(w, i) ==
  IF i > Len(Components) THEN <<>>
  ELSE verifyComponent(w, Components[i]) \o verifyComponents(w, i + 1)

\* verify(): the findings are logged in the order they are made; the second
\* request to the health endpoint fails under the fault "health"
verify(w, e) ==
  IF ~isInstalled(w) THEN R(w, FALSE, "not_installed", <<>>)
  ELSE
  LET serviceStatus == getStatus(w)
      findings ==
        (IF readMetadataIsNull(w) THEN <<Issue("", "metadata")>> ELSE <<>>)
        \o verifyComponents(w, 1)
        \o (IF ~w.plist THEN <<Issue("", "plist")>> ELSE <<>>)
        \o (IF ~serviceStatus.loaded THEN <<Warning("", "not_loaded")>>
            ELSE <<>>)
        \o (IF ~serviceStatus.running THEN <<Warning("", "not_responding")>>
            ELSE <<>>)
        \o (IF serviceStatus.running /\ ~Ok(e, "health")
            THEN <<Warning("", "health_endpoint")>> ELSE <<>>)
      issues == {i \in DOMAIN findings : findings[i].ev = "issue"}
  IN R(w, issues = {}, IF issues = {} THEN "ok" ELSE "issues", findings)

(***************************************************************************)
(* status (lib/commands/status)                                            *)
(***************************************************************************)
\* status(): reads meta.version of the record it was handed, then asks for
\* the customized files; it writes nothing
status(w) ==
  IF ~isInstalled(w) THEN R(w, FALSE, "not_installed", <<>>)
  ELSE IF readMetadataIsNull(w) THEN Threw(w, <<>>)
  ELSE IF getCustomizedFilesThrows(w) THEN Threw(w, <<>>)
  ELSE [R(w, TRUE, "ok", <<>>) EXCEPT !.customized = getCustomizedFiles(w)]

(***************************************************************************)
(* The state machine                                                       *)
(***************************************************************************)
NoCall ==
  [op |-> "none", dry |-> FALSE, force |-> FALSE, backup |-> FALSE,
   res |-> Res(TRUE, "none"), log |-> <<>>, customized |-> {},
   preserved |-> {}, updated |-> {}, wasRunning |-> FALSE]

Call(op, dry, force, backup, r) ==
  [op |-> op, dry |-> dry, force |-> force, backup |-> backup, res |-> r.res,
   log |-> r.log, customized |-> r.customized, preserved |-> r.preserved,
   updated |-> r.updated, wasRunning |-> r.wasRunning]

\* the state of one call of waitForStart, run step by step: where it is, its
\* timeout in seconds, the seconds since it took startTime, the probes made,
\* what the last probe answered and the value returned
WaitState(pc, timeout, elapsed, probes, running, result) ==
  [pc |-> pc, timeout |-> timeout, elapsed |-> elapsed, probes |-> probes,
   running |-> running, result |-> result]

\* waitForStart is not being run
NoWait == WaitState("idle", 0, 0, 0, FALSE, FALSE)

\* a command line being typed: nothing has been run
NoCli == [argv |-> <<>>, ran |-> "none"]

\* a command that has not returned yet
Pending == Res(FALSE, "pending")

\* no update and no uninstall process is running; of two running processes
\* the record keeps where each is (upc, xpc), its options, the values it has
\* read so far and its result, and whether one ever took a step while the
\* other was between its first step and its return
NoRace ==
  [upc |-> "idle", xpc |-> "idle", force |-> FALSE, backup |-> FALSE,
   preserveLogs |-> FALSE, ucustomized |-> {}, xcustomized |-> {},
   wasRunning |-> FALSE, serviceStatus |-> FALSE, ures |-> Pending,
   xres |-> Pending, overlapped |-> FALSE]

\* a fresh machine: nothing installed
FreshMachine ==
  [base |-> FALSE, dir |-> FALSE, files |-> [c \in CompNames |-> NoFile],
   meta |-> NoMeta, plist |-> FALSE, loaded |-> FALSE, healthy |-> FALSE,
   fbackups |-> {}, dbackups |-> {}, logFile |-> FALSE]

\* the machine on which `install` of release 1 ran at time 0 with every step
\* succeeding
InstalledMachine == install(FreshMachine, Nominal, 0, 1, FALSE, FALSE).st

\* the variables hold the machine state w, release 1 of the package is at
\* hand and no command has run since
StartsAs(w) ==
  /\ base = w.base
  /\ dir = w.dir
  /\ files = w.files
  /\ meta = w.meta
  /\ plist = w.plist
  /\ loaded = w.loaded
  /\ healthy = w.healthy
  /\ fbackups = w.fbackups
  /\ dbackups = w.dbackups
  /\ logFile = w.logFile
  /\ pkgVersion = 1
  /\ now = 1
  /\ faulty = 0
  /\ last = NoCall
  /\ wait = NoWait
  /\ race = NoRace
  /\ cli = NoCli

Init == StartsAs(FreshMachine)

InitInstalled == StartsAs(InstalledMachine)

\* the machine state after a call under behaviour e; a call that changed
\* something took the timestamp now
Becomes(w, e) ==
  /\ e = Nominal \/ faulty < MaxFaults
  /\ faulty' = IF e = Nominal THEN faulty ELSE faulty + 1
  /\ base' = w.base
  /\ dir' = w.dir
  /\ files' = w.files
  /\ meta' = w.meta
  /\ plist' = w.plist
  /\ loaded' = w.loaded
  /\ healthy' = w.healthy
  /\ fbackups' = w.fbackups
  /\ dbackups' = w.dbackups
  /\ logFile' = w.logFile
  /\ now' = IF w # World THEN now + 1 ELSE now
  /\ UNCHANGED <<pkgVersion, wait, race, cli>>

\* no command is running: the commands run one after the other
Idle == last = NoCall

\* the command's process exits
Exit ==
  /\ last # NoCall
  /\ last' = NoCall
  /\ UNCHANGED <<base, dir, files, meta, plist, loaded, healthy, fbackups,
                 dbackups, logFile, pkgVersion, now, faulty, wait, race,
                 cli>>

InstallFaults ==
  {"env", "base", "mkdir", "src_server", "src_voices", "gone_server",
   "gone_voices", "copy_server", "copy_voices", "plist", "load", "meta"}

UpdateFaults ==
  {"src_server", "src_voices", "gone_server", "gone_voices", "copy_server",
   "copy_voices", "backup",
   "plist", "meta", "load", "unload"}

UninstallFaults == {"unload", "plistrm", "cp", "rm", "logrm"}

Install ==
  /\ Idle
  /\ now <= MaxClock
  /\ \E dry \in BOOLEAN, force \in BOOLEAN,
        e \in Envs(InstallFaults, BootChoices, {FALSE}) :
       LET r == install(World, e, now, pkgVersion, dry, force)
       IN Becomes(r.st, e) /\ last' = Call("install", dry, force, FALSE, r)

Update ==
  /\ Idle
  /\ now <= MaxClock
  /\ \E dry \in BOOLEAN, force \in BOOLEAN,
        e \in Envs(UpdateFaults, BootChoices, BOOLEAN) :
       LET r == update(World, e, now, pkgVersion, dry, force)
       IN Becomes(r.st, e) /\ last' = Call("update", dry, force, FALSE, r)

Uninstall ==
  /\ Idle
  /\ now <= MaxClock
  /\ \E dry \in BOOLEAN, preserveLogs \in BOOLEAN, backup \in BOOLEAN,
        e \in Envs(UninstallFaults, {0}, BOOLEAN) :
       LET r == uninstall(World, e, now, dry, preserveLogs, backup)
       IN Becomes(r.st, e) /\ last' = Call("uninstall", dry, FALSE, backup, r)

Start ==
  /\ Idle
  /\ now <= MaxClock
  /\ \E dry \in BOOLEAN, e \in Envs({"load"}, BootChoices, {FALSE}) :
       LET r == start(World, e, dry)
       IN Becomes(r.st, e) /\ last' = Call("start", dry, FALSE, FALSE, r)

Stop ==
  /\ Idle
  /\ now <= MaxClock
  /\ \E dry \in BOOLEAN, e \in Envs({"unload"}, {0}, BOOLEAN) :
       LET r == stop(World, e, dry)
       IN Becomes(r.st, e) /\ last' = Call("stop", dry, FALSE, FALSE, r)

Restart ==
  /\ Idle
  /\ now <= MaxClock
  /\ \E dry \in BOOLEAN, e \in Envs({"load", "unload"}, BootChoices, BOOLEAN) :
       LET r == restart(World, e, dry)
       IN Becomes(r.st, e) /\ last' = Call("restart", dry, FALSE, FALSE, r)

Verify ==
  /\ Idle
  /\ now <= MaxClock
  /\ \E e \in Envs({"health"}, {0}, {FALSE}) :
       LET r == verify(World, e)
       IN Becomes(r.st, e) /\ last' = Call("verify", FALSE, FALSE, FALSE, r)

Status ==
  /\ Idle
  /\ now <= MaxClock
  /\ LET r == status(World)
     IN Becomes(r.st, Nominal) /\ last' = Call("status", FALSE, FALSE, FALSE, r)

(***************************************************************************)
(* What the user and the daemon do between two calls                       *)
(***************************************************************************)
Outside == Idle /\ UNCHANGED <<last, now, faulty, wait, race, cli>>

\* the user edits an installed component file
UserEdits ==
  /\ \E c \in CompNames :
       /\ files[c].exists
       /\ files[c].bytes # UserBytes
       /\ files' = [files EXCEPT ![c] = FileOf(UserBytes)]
  /\ Outside
  /\ UNCHANGED <<base, dir, meta, plist, loaded, healthy, fbackups, dbackups,
                 logFile, pkgVersion>>

\* the user deletes an installed component file
UserDeletes ==
  /\ \E c \in CompNames :
       /\ files[c].exists
       /\ files' = [files EXCEPT ![c] = NoFile]
  /\ Outside
  /\ UNCHANGED <<base, dir, meta, plist, loaded, healthy, fbackups, dbackups,
                 logFile, pkgVersion>>

\* the record file is damaged: unparseable, or parseable without its fields
RecordDamaged ==
  /\ meta.kind = "ok"
  /\ \E k \in {"corrupt", "empty"} : meta' = MetaOf(k)
  /\ Outside
  /\ UNCHANGED <<base, dir, files, plist, loaded, healthy, fbackups, dbackups,
                 logFile, pkgVersion>>

\* the user gets the next release of the package
NewRelease ==
  /\ pkgVersion < MaxVersion
  /\ pkgVersion' = pkgVersion + 1
  /\ Outside
  /\ UNCHANGED <<base, dir, files, meta, plist, loaded, healthy, fbackups,
                 dbackups, logFile>>

\* the daemon stops answering its health probe
DaemonFails ==
  /\ healthy
  /\ healthy' = FALSE
  /\ Outside
  /\ UNCHANGED <<base, dir, files, meta, plist, loaded, fbackups, dbackups,
                 logFile, pkgVersion>>

\* a server starts answering on the port: the loaded daemon comes up, or the
\* server is run by hand (bun run server.ts)
ServerAnswers ==
  /\ ~healthy
  /\ healthy' = TRUE
  /\ Outside
  /\ UNCHANGED <<base, dir, files, meta, plist, loaded, fbackups, dbackups,
                 logFile, pkgVersion>>

Next ==
  \/ Install
  \/ Update
  \/ Uninstall
  \/ Start
  \/ Stop
  \/ Restart
  \/ Verify
  \/ Status
  \/ Exit
  \/ UserEdits
  \/ UserDeletes
  \/ RecordDamaged
  \/ NewRelease
  \/ DaemonFails
  \/ ServerAnswers

Spec == Init /\ [][Next]_vars

\* the same tool on a machine that starts with release 1 installed
SpecInstalled == InitInstalled /\ [][Next]_vars

(***************************************************************************)
(* waitForStart, step by step, with the time its steps take                *)
(***************************************************************************)
\* the machine, the package and the command that ran last on it
machine == <<base, dir, files, meta, plist, loaded, healthy, fbackups, dbackups,
             logFile, pkgVersion, now, faulty, last>>

\* const startTime = Date.now(); const timeoutMs = timeout * 1000
WaitCall ==
  /\ wait = NoWait
  /\ \E T \in 1..MaxTimeout : wait' = WaitState("test", T, 0, 0, FALSE, FALSE)
  /\ UNCHANGED <<machine, race, cli>>

\* while (Date.now() - startTime < timeoutMs) ... return false
WaitTest ==
  /\ wait.pc = "test"
  /\ wait' = IF wait.elapsed * 1000 < wait.timeout * 1000
               THEN [wait EXCEPT !.pc = "probe"]
               ELSE [wait EXCEPT !.pc = "done", !.result = FALSE]
  /\ UNCHANGED <<machine, race, cli>>

\* if (await isRunning()) return true: lsof, then curl, which gives up after
\* ProbeMax seconds; both block the process while they run
WaitProbe ==
  /\ wait.pc = "probe"
  /\ \E ok \in BOOLEAN, d \in 0..ProbeMax :
       wait' = [wait EXCEPT !.elapsed = @ + d, !.probes = @ + 1, !.running = ok,
                            !.pc = IF ok THEN "done" ELSE "sleep",
                            !.result = ok]
  /\ UNCHANGED <<machine, race, cli>>

\* await sleep(1000)
WaitSleep ==
  /\ wait.pc = "sleep"
  /\ wait' = [wait EXCEPT !.elapsed = @ + PollInterval, !.pc = "test"]
  /\ UNCHANGED <<machine, race, cli>>

WaitNext == WaitCall \/ WaitTest \/ WaitProbe \/ WaitSleep

\* one call of waitForStart on a machine nothing else touches
SpecWait == Init /\ [][WaitNext]_vars

\* the same call with every step that can be taken eventually taken
FairSpecWait == SpecWait /\ WF_vars(WaitNext)

(***************************************************************************)
(* update and uninstall run as two processes at the same time              *)
(***************************************************************************)
\* the machine after a step of one of the two processes
Runs(w) ==
  /\ base' = w.base
  /\ dir' = w.dir
  /\ files' = w.files
  /\ meta' = w.meta
  /\ plist' = w.plist
  /\ loaded' = w.loaded
  /\ healthy' = w.healthy
  /\ fbackups' = w.fbackups
  /\ dbackups' = w.dbackups
  /\ logFile' = w.logFile
  /\ UNCHANGED <<pkgVersion, now, faulty, last, wait, cli>>

\* a process takes a step while the other one is at otherpc
Overlaps(otherpc) == race.overlapped \/ otherpc \notin {"check", "done"}

\* the update process moves to pc
UGoes(pc) ==
  [race EXCEPT !.upc = pc, !.overlapped = Overlaps(race.xpc)]

\* the update process returns res
UReturns(res) == [UGoes("done") EXCEPT !.ures = res]

\* the uninstall process moves to pc
XGoes(pc) ==
  [race EXCEPT !.xpc = pc, !.overlapped = Overlaps(race.upc)]

\* the uninstall process returns res
XReturns(res) == [XGoes("done") EXCEPT !.xres = res]

\* `update` and `uninstall` are started in two terminals, neither with
\* --dry-run
RaceBegin ==
  /\ Idle
  /\ race = NoRace
  /\ \E force \in BOOLEAN, backup \in BOOLEAN, preserveLogs \in BOOLEAN :
       race' = [NoRace EXCEPT !.upc = "check", !.xpc = "check",
                              !.force = force, !.backup = backup,
                              !.preserveLogs = preserveLogs]
  /\ Runs(World)

\* update: if (!metadata.isInstalled()) return not_installed
UCheck ==
  /\ race.upc = "check"
  /\ race' = IF ~isInstalled(World) THEN UReturns(Res(FALSE, "not_installed"))
             ELSE UGoes("version")
  /\ Runs(World)

\* update: currentVersion === newVersion && !force
UVersion ==
  /\ race.upc = "version"
  /\ race' = IF getInstalledVersion(World) = pkgVersion /\ ~race.force
             THEN UReturns(Res(TRUE, "already_up_to_date"))
             ELSE UGoes("customized")
  /\ Runs(World)

\* update: const customized = metadata.getCustomizedFiles()
UCustomized ==
  /\ race.upc = "customized"
  /\ race' = IF getCustomizedFilesThrows(World) THEN UReturns(Thrown)
             ELSE [UGoes("status") EXCEPT
                     !.ucustomized = getCustomizedFiles(World)]
  /\ Runs(World)

\* update: const wasRunning = await launchagent.isRunning()
UStatus ==
  /\ race.upc = "status"
  /\ race' = [UGoes(IF isRunning(World) THEN "unload" ELSE "server")
                EXCEPT !.wasRunning = isRunning(World)]
  /\ Runs(World)

\* update: launchagent.unload()
UUnload ==
  /\ race.upc = "unload"
  /\ race' = UGoes("server")
  /\ Runs(unload(World, Nominal, FALSE).st)

\* update: one turn of the loop over the components
UComponent ==
  /\ race.upc \in CompNames
  /\ LET r == updateComponent(World, Nominal, now, pkgVersion, FALSE,
                              race.ucustomized, race.upc)
     IN /\ race' = IF r.ret = "abort"
                   THEN UReturns(Res(FALSE, "update_failed"))
                   ELSE UGoes(IF race.upc = "server" THEN "voices" ELSE "plist")
        /\ Runs(r.st)

\* update: launchagent.createPlist()
UPlist ==
  /\ race.upc = "plist"
  /\ race' = UGoes("meta")
  /\ Runs(createPlist(World, Nominal, FALSE).st)

\* update: metadata.updateAfterInstall({isUpdate: true}), a warning if it
\* throws; the update is over unless the daemon was running
UMeta ==
  /\ race.upc = "meta"
  /\ race' = IF race.wasRunning THEN UGoes("load")
             ELSE UReturns(Res(TRUE, "ok"))
  /\ Runs(updateAfterInstall(World, Nominal, now, pkgVersion, FALSE, TRUE).st)

\* update: launchagent.load(), a warning if it throws
ULoad ==
  /\ race.upc = "load"
  /\ LET ld == load(World, Nominal, FALSE)
     IN /\ race' = IF ld.ret = "throw" THEN UReturns(Res(TRUE, "ok"))
                   ELSE UGoes("wait")
        /\ Runs(ld.st)

\* update: await launchagent.waitForStart(10), a warning if it times out
UWait ==
  /\ race.upc = "wait"
  /\ race' = UReturns(Res(TRUE, "ok"))
  /\ \E e \in Envs({}, BootChoices, {FALSE}) :
       Runs(waitForStart(World, e, StartTimeout).st)

\* uninstall: if (!metadata.isInstalled()) return not_installed
XCheck ==
  /\ race.xpc = "check"
  /\ race' = IF ~isInstalled(World) THEN XReturns(Res(FALSE, "not_installed"))
             ELSE XGoes("customized")
  /\ Runs(World)

\* uninstall: const customized = metadata.getCustomizedFiles()
XCustomized ==
  /\ race.xpc = "customized"
  /\ race' = IF getCustomizedFilesThrows(World) THEN XReturns(Thrown)
             ELSE [XGoes("status") EXCEPT
                     !.xcustomized = getCustomizedFiles(World)]
  /\ Runs(World)

\* uninstall: const serviceStatus = await launchagent.getStatus()
XStatus ==
  /\ race.xpc = "status"
  /\ LET serviceStatus == getStatus(World)
         busy == serviceStatus.running \/ serviceStatus.loaded
     IN race' = [XGoes(IF busy THEN "unload" ELSE "rmplist")
                   EXCEPT !.serviceStatus = busy]
  /\ Runs(World)

\* uninstall: launchagent.unload(); XUnloadSkipped is the step going on to
\* the plist without asking for the unload
XUnloadSkipped ==
  /\ race.xpc = "unload"
  /\ race' = XGoes("rmplist")
  /\ Runs(World)

XUnload ==
  /\ race.xpc = "unload"
  /\ race' = XGoes("rmplist")
  /\ Runs(unload(World, Nominal, FALSE).st)

\* uninstall: launchagent.removePlist()
XRemovePlist ==
  /\ race.xpc = "rmplist"
  /\ race' = XGoes(IF race.backup /\ race.xcustomized # {} THEN "backup"
                   ELSE "rmdir")
  /\ Runs(removePlist(World, Nominal, FALSE).st)

\* uninstall: fs.cpSync(installPath, backupPath), a warning if it fails
XBackup ==
  /\ race.xpc = "backup"
  /\ race' = XGoes("rmdir")
  /\ Runs(backupDirectory(World, Nominal, now).st)

\* uninstall: removeDirectory(installPath)
XRemoveDirectory ==
  /\ race.xpc = "rmdir"
  /\ LET r == removeDirectory(World, Nominal, FALSE)
     IN /\ race' = IF r.ret = "throw"
                   THEN XReturns(Res(FALSE, "removal_failed"))
                   ELSE IF race.preserveLogs THEN XReturns(Res(TRUE, "ok"))
                   ELSE XGoes("rmlog")
        /\ Runs(r.st)

\* uninstall: removeFile(logPath), a warning if it throws
XRemoveLog ==
  /\ race.xpc = "rmlog"
  /\ race' = XReturns(Res(TRUE, "ok"))
  /\ Runs(removeFile(World, Nominal, FALSE).st)

\* the user edits a component file before the two commands are started
RaceUserEdits == race = NoRace /\ UserEdits

RaceNext ==
  \/ RaceUserEdits
  \/ RaceBegin
  \/ UCheck
  \/ UVersion
  \/ UCustomized
  \/ UStatus
  \/ UUnload
  \/ UComponent
  \/ UPlist
  \/ UMeta
  \/ ULoad
  \/ UWait
  \/ XCheck
  \/ XCustomized
  \/ XStatus
  \/ XUnload
  \/ XRemovePlist
  \/ XBackup
  \/ XRemoveDirectory
  \/ XRemoveLog

\* an installed machine with a running daemon on which update and uninstall
\* are started together
SpecRace == InitInstalled /\ [][RaceNext]_vars

(***************************************************************************)
(* The command line (install.js)                                           *)
(***************************************************************************)
\* the keys of the commands table
CommandTable ==
  {"install", "update", "uninstall", "start", "stop", "restart", "status",
   "verify"}

\* the words a user types: the commands, a word that is no command, an
\* option and --help
Words == CommandTable \cup {"frobnicate", "--dry-run", "--help"}

\* parseArgs from word i on, command being the value of parsed.command so
\* far ("" for null): the command found, or "--help" when the process exits
\* in showHelp
RECURSIVE parseArgs(_, _, _)
parseArgs(args, i, command) ==
  IF i > Len(args) THEN command
  ELSE IF args[i] = "--help" THEN "--help"
  ELSE IF args[i] = "--dry-run" THEN parseArgs(args, i + 1, command)
  ELSE parseArgs(args, i + 1, IF command = "" THEN args[i] ELSE command)

\* main(): the handler that is run, "help", or "unknown" for the exit with
\* code 1 before any handler
main(args) ==
  LET parsed == parseArgs(args, 1, "")
      command == IF parsed = "" THEN "status" ELSE parsed
  IN IF parsed = "--help" THEN "help"
     ELSE IF command \notin CommandTable THEN "unknown"
     ELSE command

\* the user types one more word
CliTypes ==
  /\ cli.ran = "none"
  /\ Len(cli.argv) < MaxArgs
  /\ \E word \in Words : cli' = [cli EXCEPT !.argv = Append(@, word)]
  /\ UNCHANGED <<machine, wait, race>>

\* the user presses return
CliRuns ==
  /\ cli.ran = "none"
  /\ cli' = [cli EXCEPT !.ran = main(cli.argv)]
  /\ UNCHANGED <<machine, wait, race>>

CliNext == CliTypes \/ CliRuns

\* one command line typed and run
SpecCli == Init /\ [][CliNext]_vars

(***************************************************************************)
(* Properties                                                              *)
(***************************************************************************)
Commands == {"install", "update", "uninstall", "start", "stop", "restart"}

\* the call that just returned was a real (non-dry-run) run of op
RealRun(l, op) == l.op = op /\ ~l.dry

\* an update that went past the installed check and the version check
Proceeded(l) ==
  l.op = "update" /\ l.res.reason \notin {"not_installed", "already_up_to_date"}

\* the record holds a hash for c that differs from the hash of c's file
DiffersFromStored(w, c) ==
  /\ w.files[c].exists
  /\ w.meta.kind = "ok"
  /\ w.meta.comps[c].present
  /\ calculateFileHash(w.files[c]) # w.meta.comps[c].hash

\* C1: a real update that proceeds past the version check leaves the bytes
\* of every preserveOnUpdate component untouched whose file hash differed
\* from the hash stored in the record when the update started.
C1_CustomizedFileKept ==
  [][(RealRun(last', "update") /\ Proceeded(last'))
       => \A c \in CompNames :
            (getComponent(c).preserveOnUpdate /\ DiffersFromStored(World, c))
              => files'[c] = files[c]]_vars

\* a real update has returned success having preserved the user's voices.json
C1_Witness ==
  /\ RealRun(last, "update")
  /\ last.res.success
  /\ "voices" \in last.preserved
  /\ files["voices"] = FileOf(UserBytes)

\* C2: once the user has modified voices.json, every later real update that
\* proceeds (new release or forced) leaves the file's bytes unchanged - the
\* second and later updates included.  Stated for the runs in which nothing
\* has gone wrong in any call and the record is intact.
C2_CustomizationKeptByEveryUpdate ==
  [][(/\ RealRun(last', "update")
      /\ Proceeded(last')
      /\ faulty' = 0
      /\ files["voices"] = FileOf(UserBytes)
      /\ meta.kind = "ok"
      /\ meta.comps["voices"].present)
       => files'["voices"] = files["voices"]]_vars

\* C3: after a real update that preserved a customized component, the hash
\* stored for it is the hash stored before the update, so getCustomizedFiles()
\* called right after the update still returns the component.
C3_PreservedKeepsStoredHash ==
  [][(RealRun(last', "update") /\ last'.res.success)
       => \A c \in last'.preserved :
            /\ meta'.comps[c].hash = meta.comps[c].hash
            /\ c \in getCustomizedFiles(World')]_vars

\* the steps of the call l that were logged as event ev
Steps(l, ev) == {i \in DOMAIN l.log : l.log[i].ev = ev}

\* the call that just returned was a real install or update whose record
\* write succeeded
WroteRecord ==
  /\ last.op \in {"install", "update"}
  /\ ~last.dry
  /\ \E i \in Steps(last, "writeMeta") : last.log[i].ok

\* C4 (as stated): right after a successful real record write by install or
\* update, getCustomizedFiles() returns the empty set and the hash stored for
\* every recorded component equals the hash of the file at its target path.
C4_StoredHashesMatchFiles ==
  WroteRecord =>
    /\ getCustomizedFiles(World) = {}
    /\ \A c \in CompNames :
         meta.comps[c].present
           => meta.comps[c].hash = calculateFileHash(files[c])

\* C4 (amended): right after a successful real record write by install or
\* update, getCustomizedFiles() returns the empty set and the hash stored for
\* every recorded component whose target file exists equals the hash of that
\* file; the record of a component whose file is missing is left as it was.
C4_StoredHashesMatchExistingFiles ==
  WroteRecord =>
    /\ getCustomizedFiles(World) = {}
    /\ \A c \in CompNames :
         (meta.comps[c].present /\ files[c].exists)
           => meta.comps[c].hash = calculateFileHash(files[c])

\* an update has written the record while a recorded component's file is
\* missing, and another recorded component's file was re-hashed
C4_Witness ==
  /\ WroteRecord
  /\ last.op = "update"
  /\ meta.comps["voices"].present
  /\ ~files["voices"].exists
  /\ meta.comps["server"].present
  /\ files["server"].exists

\* C5: in a real update, a customized component without preserveOnUpdate
\* gets exactly one new backup file, named after the time of the update and
\* holding the pre-update bytes, and every overwrite of its target comes
\* after a successful backup of it.
C5_BackupBeforeOverwrite ==
  [][RealRun(last', "update")
       => \A c \in last'.customized :
            ~getComponent(c).preserveOnUpdate
              => /\ {b \in fbackups' \ fbackups : b.c = c}
                      = {[c |-> c, ts |-> now, bytes |-> files[c].bytes]}
                 /\ \A i \in Steps(last', "copy") :
                      (last'.log[i].c = c /\ last'.log[i].ok)
                        => \E j \in Steps(last', "backup") :
                             /\ j < i
                             /\ last'.log[j].c = c
                             /\ last'.log[j].ok]_vars

\* C6: a dry run of install, update, uninstall, start, stop or restart leaves
\* the record, every component file, the plist, the install directory and the
\* supervisor's entry as they were, and issues no launchctl load or unload.
C6_DryRunPurity ==
  [][(last'.op \in Commands /\ last'.dry)
       => /\ meta' = meta
          /\ files' = files
          /\ plist' = plist
          /\ dir' = dir
          /\ loaded' = loaded
          /\ Steps(last', "load") = {}
          /\ Steps(last', "unload") = {}]_vars

\* a dry-run uninstall of an installed, loaded service has returned success
C6_Witness ==
  /\ last.op = "uninstall"
  /\ last.dry
  /\ last.res.success
  /\ dir
  /\ plist
  /\ loaded
  /\ meta.kind = "ok"

\* C7: from every state and under every behaviour of the environment, the
\* success field of a dry run equals the success field of the real run from
\* the same state, for each of the six commands.
C7_DryRunSameVerdict ==
  Idle =>
    /\ \A force \in BOOLEAN, e \in Envs(InstallFaults, BootChoices, {FALSE}) :
         install(World, e, now, pkgVersion, TRUE, force).res.success
           = install(World, e, now, pkgVersion, FALSE, force).res.success
    /\ \A force \in BOOLEAN, e \in Envs(UpdateFaults, BootChoices, BOOLEAN) :
         update(World, e, now, pkgVersion, TRUE, force).res.success
           = update(World, e, now, pkgVersion, FALSE, force).res.success
    /\ \A preserveLogs \in BOOLEAN, backup \in BOOLEAN,
          e \in Envs(UninstallFaults, {0}, BOOLEAN) :
         uninstall(World, e, now, TRUE, preserveLogs, backup).res.success
           = uninstall(World, e, now, FALSE, preserveLogs, backup).res.success
    /\ \A e \in Envs({"load"}, BootChoices, {FALSE}) :
         start(World, e, TRUE).res.success = start(World, e, FALSE).res.success
    /\ \A e \in Envs({"unload"}, {0}, BOOLEAN) :
         stop(World, e, TRUE).res.success = stop(World, e, FALSE).res.success
    /\ \A e \in Envs({"load", "unload"}, BootChoices, BOOLEAN) :
         restart(World, e, TRUE).res.success
           = restart(World, e, FALSE).res.success

\* C8: when launchctl load or launchctl unload fails for a reason other than
\* "already loaded" / "not found" in a real run, load() / unload() does not
\* return true.
C8_LaunchctlFailureSurfaced ==
  \A i \in Steps(last, "load") \cup Steps(last, "unload") :
    last.log[i].cmd = "error" => ~last.log[i].ok

\* C9: getStatus() reports 'running' only when the supervisor has an entry
\* and the health probe succeeds, 'loaded but not responding' exactly when
\* the supervisor has an entry and the probe fails, and 'stopped' exactly
\* when the supervisor has no entry.
C9_StatusFromEntryAndProbe ==
  LET s == getStatus(World).status
  IN /\ s = "running" => (loaded /\ healthy)
     /\ s = "loaded but not responding" <=> (loaded /\ ~healthy)
     /\ s = "stopped" <=> ~loaded

\* the step of the call l at which a required component failed to copy
RequiredCopyFailures(l) ==
  {i \in Steps(l, "copy") \cup Steps(l, "resolve") :
     ~l.log[i].ok /\ getComponent(l.log[i].c).type = "required"}

\* C10: a real install in which copying a required component fails returns
\* success = false with reason component_install_failed; the failed copy is
\* its last step (no later copy, no plist creation, no load, no record
\* write); plist, supervisor entry and record are as before; the files copied
\* before the failure and the created directory stay in place.
C10_RequiredCopyFailureAborts ==
  [][(RealRun(last', "install") /\ RequiredCopyFailures(last') # {})
       => /\ last'.res = Res(FALSE, "component_install_failed")
          /\ RequiredCopyFailures(last') = {Len(last'.log)}
          /\ Steps(last', "plist") = {}
          /\ Steps(last', "load") = {}
          /\ Steps(last', "writeMeta") = {}
          /\ plist' = plist
          /\ loaded' = loaded
          /\ meta' = meta
          /\ dir' = (dir \/ \E i \in Steps(last', "mkdir") : last'.log[i].ok)
          /\ \A c \in CompNames :
               files'[c] =
                 IF \E i \in Steps(last', "copy") :
                      last'.log[i].c = c /\ last'.log[i].ok
                 THEN FileOf(PkgBytes(pkgVersion))
                 ELSE files[c]]_vars

\* a real install on a fresh machine has stopped at the failed copy of
\* server.ts, leaving the directory it had created
C10_Witness ==
  /\ RealRun(last, "install")
  /\ last.res.reason = "component_install_failed"
  /\ RequiredCopyFailures(last) # {}
  /\ dir
  /\ ~files["server"].exists
  /\ ~plist
  /\ meta = NoMeta

\* the steps of the call l at which an optional component failed to copy
OptionalCopyFailures(l) ==
  {i \in Steps(l, "copy") \cup Steps(l, "resolve") :
     ~l.log[i].ok /\ getComponent(l.log[i].c).type = "optional"}

\* the steps of the call l at which waitForStart timed out
WaitTimeouts(l) == {i \in Steps(l, "wait") : ~l.log[i].ok}

\* C11: a real install in which an optional component fails to copy, or in
\* which the daemon does not answer within the wait, goes on: after an
\* optional copy failure come the plist creation, the load request and the
\* record write, after a timed-out wait comes the record write, and install
\* returns success = true.
C11_OptionalFailureAndTimeoutGoOn ==
  [][RealRun(last', "install")
       => /\ \A i \in OptionalCopyFailures(last') :
               /\ last'.res.success
               /\ \E j \in Steps(last', "plist") : j > i
               /\ \E j \in Steps(last', "load") : j > i
               /\ \E j \in Steps(last', "writeMeta") : j > i
          /\ \A i \in WaitTimeouts(last') :
               /\ last'.res.success
               /\ \E j \in Steps(last', "plist") : j < i
               /\ \E j \in Steps(last', "load") : j < i
               /\ \E j \in Steps(last', "writeMeta") : j > i]_vars

\* a real install has returned success although voices.json could not be
\* copied: the service is loaded and the record holds server.ts only
C11_Witness ==
  /\ RealRun(last, "install")
  /\ OptionalCopyFailures(last) # {}
  /\ last.res.success
  /\ plist
  /\ loaded
  /\ meta.kind = "ok"
  /\ meta.comps["server"].present
  /\ ~meta.comps["voices"].present

\* the record file and the installed server.ts both exist
RecordAndServerExist == meta.kind # "absent" /\ files["server"].exists

\* the call l returned the refusal `reason` without having taken any step
Refused(l, reason) == l.res = Res(FALSE, reason) /\ l.log = <<>>

\* C12: install without force on an installed system is refused with
\* already_installed; update, uninstall, start and stop on a system that is
\* not installed are refused with not_installed and restart with stop_failed;
\* a refused call takes no step and leaves the whole machine state as it was.
C12_PreflightRefusalChangesNothing ==
  [][/\ (last'.op = "install" /\ ~last'.force /\ RecordAndServerExist)
          => (Refused(last', "already_installed") /\ World' = World)
     /\ (last'.op \in {"update", "uninstall", "start", "stop"}
           /\ ~RecordAndServerExist)
          => (Refused(last', "not_installed") /\ World' = World)
     /\ (last'.op = "restart" /\ ~RecordAndServerExist)
          => (Refused(last', "stop_failed") /\ World' = World)]_vars

\* a real update has been refused on a machine that holds server.ts and the
\* plist but no record
C12_Witness ==
  /\ RealRun(last, "update")
  /\ Refused(last, "not_installed")
  /\ files["server"].exists
  /\ plist
  /\ meta.kind = "absent"

\* C13: install creates no file or directory during validateEnvironment():
\* no call of install makes ~/.claude, a dry-run install leaves ~/.claude and
\* the install directory as they were, and an install refused by the
\* environment check leaves the whole machine state as it was.
C13_ValidationReadOnly ==
  [][last'.op = "install"
       => /\ Steps(last', "mkbase") = {}
          /\ last'.dry => (base' = base /\ dir' = dir)
          /\ last'.res.reason = "environment_check_failed"
               => World' = World]_vars

\* the call l is a real update that returned success having updated a
\* component
UpdatedComponents(l) ==
  RealRun(l, "update") /\ l.res = Res(TRUE, "ok") /\ l.updated # {}

\* C14 (as stated): after every real update that returns success with
\* components updated, the record's installDate is the installDate the record
\* had before the update and lastUpdate is set.
C14_InstallDateKept ==
  [][UpdatedComponents(last')
       => /\ meta'.kind = "ok"
          /\ meta'.installDate = meta.installDate
          /\ meta'.lastUpdate # 0]_vars

\* C14 (amended): after a real update that returns success with components
\* updated and whose record write succeeded, a record that was readable
\* before the update keeps its installDate and has lastUpdate set to the time
\* of the update; in place of an unreadable record a new record is written
\* with the time of the update as installDate and no lastUpdate.
C14_InstallDateKeptWhenRecordWritten ==
  [][(UpdatedComponents(last')
        /\ \E i \in Steps(last', "writeMeta") : last'.log[i].ok)
       => /\ meta'.kind = "ok"
          /\ meta.kind = "ok"
               => (meta'.installDate = meta.installDate
                     /\ meta'.lastUpdate = now)
          /\ meta.kind # "ok"
               => (meta.kind = "corrupt"
                     /\ meta'.installDate = now
                     /\ meta'.lastUpdate = 0)]_vars

\* a real update has updated components and written the record: lastUpdate
\* is set and installDate is the earlier date of the install
C14_Witness ==
  /\ UpdatedComponents(last)
  /\ \E i \in Steps(last, "writeMeta") : last.log[i].ok
  /\ meta.kind = "ok"
  /\ meta.lastUpdate # 0
  /\ meta.installDate < meta.lastUpdate

\* C15: in a real update that proceeds, if the daemon answers when the update
\* starts an unload request is issued, and it comes before every write of a
\* component file; every load request comes after the plist step and the
\* record step and is followed by waitForStart; if the daemon did not answer
\* at the start no load request is issued.
C15_UnloadFirstLoadLast ==
  [][(RealRun(last', "update") /\ Proceeded(last') /\ ~last'.res.threw)
       => /\ healthy
               => /\ Steps(last', "unload") # {}
                  /\ \A i \in Steps(last', "copy") \cup Steps(last', "backup") :
                       \E u \in Steps(last', "unload") : u < i
          /\ \A l \in Steps(last', "load") :
               /\ healthy
               /\ \E p \in Steps(last', "plist") : p < l
               /\ \E m \in Steps(last', "writeMeta") : m < l
               /\ \E t \in Steps(last', "wait") : t > l
          /\ ~healthy => Steps(last', "load") = {}]_vars

\* C16: after a real uninstall that returned success, the install directory,
\* the record file and the plist file are absent and isInstalled() is false.
C16_UninstallRemovesEverything ==
  (RealRun(last, "uninstall") /\ last.res.success)
    => /\ ~dir
       /\ meta.kind = "absent"
       /\ ~plist
       /\ ~isInstalled(World)

\* the call l is a real uninstall that went past the installed check
UninstallProceeded(l) ==
  RealRun(l, "uninstall") /\ l.res.reason # "not_installed" /\ ~l.res.threw

HealthyInstall(l) ==
  /\ RealRun(l, "install")
  /\ l.res.success
  /\ \A i \in DOMAIN l.log : l.log[i].ok
  /\ \A i \in Steps(l, "load") : l.log[i].cmd # "error"
  /\ \E i \in Steps(l, "wait") : l.log[i].ok

\* C18: right after a real install in a healthy environment, verify (with
\* the health endpoint still answering) returns success = true with no issue
\* and no warning.
C18_VerifyCleanAfterInstall ==
  HealthyInstall(last)
    => /\ verify(World, Nominal).res = Res(TRUE, "ok")
       /\ verify(World, Nominal).log = <<>>

\* a real install in a healthy environment has just returned on a machine
\* where nothing was installed before
C18_Witness ==
  /\ HealthyInstall(last)
  /\ ~last.force
  /\ loaded
  /\ healthy
  /\ plist
  /\ meta.kind = "ok"
  /\ \A c \in CompNames : files[c] = FileOf(PkgBytes(pkgVersion))

\* C19: a real start on an installed system whose service is Running (the
\* supervisor has it loaded and the probe answers) returns success and sends
\* no load request; a real stop on an installed system whose service is
\* Stopped (the supervisor has no entry) returns success and sends no unload
\* request; neither changes the machine state.
C19_StartStopNoOp ==
  [][/\ (RealRun(last', "start") /\ isInstalled(World) /\ loaded /\ healthy)
          => /\ last'.res.success
             /\ Steps(last', "load") = {}
             /\ World' = World
     /\ (RealRun(last', "stop") /\ isInstalled(World) /\ ~loaded)
          => /\ last'.res.success
             /\ Steps(last', "unload") = {}
             /\ World' = World]_vars

\* the real or dry-run restart that returned l and left the machine in state
\* w2 is stop followed by start under behaviour e from state w, with the
\* first failure propagated: after a failed stop, start is not invoked
StopThenStart(w, e, l, w2) ==
  LET s == stop(w, e, l.dry)
      t == start(s.st, e, l.dry)
  IN IF ~s.res.success
     THEN /\ l.res = Res(FALSE, "stop_failed")
          /\ l.log = s.log
          /\ Steps(l, "start") = {}
          /\ Steps(l, "load") = {}
          /\ w2 = s.st
     ELSE /\ l.log = s.log \o <<Ev("start", "", TRUE, "")>> \o t.log
          /\ w2 = t.st
          /\ l.res = IF t.res.success THEN Res(TRUE, "ok")
                     ELSE Res(FALSE, "start_failed")

\* C20: restart is stop, then start, propagating the first failure: when
\* stop returns success = false restart returns stop_failed and start is not
\* invoked, when stop succeeds and start returns success = false restart
\* returns start_failed, and restart returns success = true only when both
\* succeeded.
C20_RestartPropagatesFirstFailure ==
  [][last'.op = "restart"
       => \E e \in Envs({"load", "unload"}, BootChoices, BOOLEAN) :
            StopThenStart(World, e, last', World')]_vars

\* a real restart has returned start_failed: its stop unloaded the service,
\* its start loaded it again and the daemon did not answer within the wait
C20_Witness ==
  /\ RealRun(last, "restart")
  /\ last.res = Res(FALSE, "start_failed")
  /\ Steps(last, "unload") # {}
  /\ Steps(last, "start") # {}
  /\ Steps(last, "load") # {}
  /\ loaded
  /\ ~healthy

\* the findings of kind ev ("issue" or "warning") logged by the call l
Findings(l, ev) == {l.log[i] : i \in Steps(l, ev)}

\* C21: verify on an installed system returns success = true exactly when it
\* raised no issue; it raises an issue exactly for a record that cannot be
\* parsed, for each required component whose file is missing and for a
\* missing plist; a missing optional component, a service that is not loaded
\* and a failing health probe raise warnings only; verify changes nothing.
C21_VerifySuccessIffNoIssue ==
  [][(last'.op = "verify" /\ isInstalled(World))
       => /\ last'.res.success <=> Findings(last', "issue") = {}
          /\ Findings(last', "issue") =
               {Issue("", "metadata") : x \in {1} \cap
                                          (IF meta.kind = "corrupt" THEN {1}
                                           ELSE {})}
                 \cup {Issue(c, "missing") :
                         c \in {d \in CompNames :
                                  /\ getComponent(d).type = "required"
                                  /\ ~files[d].exists}}
                 \cup {Issue("", "plist") : x \in {1} \cap
                                              (IF plist THEN {} ELSE {1})}
          /\ \A c \in CompNames :
               Warning(c, "missing") \in Findings(last', "warning")
                 <=> (getComponent(c).type = "optional" /\ ~files[c].exists)
          /\ Warning("", "not_loaded") \in Findings(last', "warning")
               <=> ~loaded
          /\ Warning("", "not_responding") \in Findings(last', "warning")
               <=> ~healthy
          /\ World' = World]_vars

\* verify has returned success with warnings only: voices.json is missing,
\* the service is not loaded and the probe fails
C21_Witness ==
  /\ last.op = "verify"
  /\ last.res.success
  /\ Findings(last, "issue") = {}
  /\ Findings(last, "warning") =
       {Warning("voices", "missing"), Warning("", "not_loaded"),
        Warning("", "not_responding")}


\* C22: a call of waitForStart(T) that has returned gave true exactly when its
\* last probe succeeded, and when no probe succeeded it made at most T probes
\* and returned false no earlier than T seconds and no later than T seconds
\* plus one poll interval after it started.
C22_WaitBounded ==
  /\ wait.pc = "sleep" => ~wait.running
  /\ wait.pc = "done" =>
       /\ wait.result <=> wait.running
       /\ ~wait.result =>
            /\ wait.probes <= wait.timeout
            /\ wait.elapsed >= wait.timeout
            /\ wait.elapsed <= wait.timeout + PollInterval

\* every call of waitForStart returns
C22_WaitTerminates == (wait.pc # "idle") ~> (wait.pc = "done")

\* the part of C22 that holds: the verdict, the number of probes and the
\* earliest return
C22_WaitVerdictAndFloor ==
  /\ wait.pc = "sleep" => ~wait.running
  /\ wait.pc = "done" =>
       /\ wait.result <=> wait.running
       /\ ~wait.result => (wait.probes <= wait.timeout /\ wait.elapsed >= wait.timeout)


\* C23: the set getCustomizedFiles() returned to the update or uninstall that
\* just ran holds only components whose manifest entry has preserveOnUpdate.
C23_OnlyPreservableFlagged ==
  (last.op \in {"update", "uninstall"} /\ ~last.res.threw)
    => \A c \in last.customized : getComponent(c).preserveOnUpdate


\* C24: every component in the set getCustomizedFiles() returned to the update
\* or uninstall that just ran had, when the command started, an existing
\* target file whose hash differed from the hash stored for it; a component
\* whose target file was missing is not in the set.
C24_MissingFileNeverFlagged ==
  [][(last'.op \in {"update", "uninstall"} /\ ~last'.res.threw)
       => \A c \in last'.customized :
            /\ files[c].exists
            /\ meta.comps[c].present
            /\ calculateFileHash(files[c]) # meta.comps[c].hash]_vars

\* a dry-run uninstall was handed the edited server.ts but not the deleted,
\* still recorded, voices.json
C24_Witness ==
  /\ last.op = "uninstall"
  /\ last.dry
  /\ ~files["voices"].exists
  /\ meta.kind = "ok"
  /\ meta.comps["voices"].present
  /\ last.customized = {"server"}


\* C25: from every state, for each component and whether or not its source
\* file is there, copyFile called with dryRun = true returns what the call
\* with dryRun = false returns, and changes nothing.
C25_DryRunCopySameResult ==
  Idle =>
    \A c \in CompNames : \A e \in Envs({GoneFault(c)}, {0}, {FALSE}) :
      /\ copyFile(World, e, c, pkgVersion, TRUE).ret
           = copyFile(World, e, c, pkgVersion, FALSE).ret
      /\ copyFile(World, e, c, pkgVersion, TRUE).st = World

\* the half of C25 that holds: a dry-run copyFile changes nothing
C25_DryRunCopyChangesNothing ==
  Idle =>
    \A c \in CompNames :
      \A e \in Envs({GoneFault(c), CopyFault(c)}, {0}, {FALSE}) :
      copyFile(World, e, c, pkgVersion, TRUE).st = World


\* C26: update, uninstall, start, stop and verify take the system for not
\* installed, and install without force takes it for installed, exactly
\* according to whether the record file and server.ts both exist, whether or
\* not the record file can be read.
C26_InstalledIffRecordAndServerFiles ==
  [][LET both == meta.kind # "absent" /\ files["server"].exists
     IN /\ last'.op \in {"update", "uninstall", "start", "stop", "verify"}
             => (last'.res.reason = "not_installed" <=> ~both)
        /\ (last'.op = "install" /\ ~last'.force)
             => (last'.res.reason = "already_installed" <=> both)]_vars

\* verify went past its installed check on a record file that exists and
\* cannot be read
C26_Witness ==
  /\ last.op = "verify"
  /\ last.res.reason # "not_installed"
  /\ meta.kind = "corrupt"
  /\ readMetadataIsNull(World)
  /\ files["server"].exists


\* the supervisor conditions a non-dry-run load or unload can meet
SupervisorEnvs == Envs({"load", "unload"}, {0}, BOOLEAN)

C28_NeverThrows ==
  last.op \in Commands \cup {"verify"} => ~last.res.threw

\* the part of C28 that holds: with a record file that is missing, unreadable
\* or complete, no command throws, whichever step fails
C28_ThrowsOnlyOnRecordWithoutFields ==
  [][last'.res.threw
       => (last'.op \in {"update", "uninstall"} /\ meta.kind = "empty")]_vars


\* update and uninstall have both returned success
BothSucceeded ==
  /\ race.upc = "done"
  /\ race.xpc = "done"
  /\ race.ures.success
  /\ race.xres.success

\* C29: when an update and an uninstall have both returned success and neither
\* took a step while the other was running, nothing of the installation is
\* left: no install directory, no record, no plist, no loaded service.  (That
\* two overlapping runs can end otherwise is C29_Witness.)
C29_OnlyOverlapLeavesLoadedRemnant ==
  (BothSucceeded /\ ~race.overlapped)
    => (~dir /\ meta.kind = "absent" /\ ~plist /\ ~loaded)

\* an update that found the daemon running and an uninstall have both
\* returned success; the install directory and the record are gone, the plist
\* exists and the service is loaded
C29_Witness ==
  /\ BothSucceeded
  /\ race.wasRunning
  /\ race.ures.reason = "ok"
  /\ race.xres.reason = "ok"
  /\ ~dir
  /\ meta.kind = "absent"
  /\ plist
  /\ loaded


\* C30: a command line that names no command of the table, whether it names
\* none at all or a word that is not in the table, runs the status command.
C30_UnknownSubcommandRunsStatus ==
  (cli.ran \notin {"none", "help"}
     /\ parseArgs(cli.argv, 1, "") \notin CommandTable)
    => cli.ran = "status"

\* the half of C30 that holds: a command line without a subcommand runs the
\* status command, and a subcommand of the table runs its own handler
C30_MissingSubcommandRunsStatus ==
  cli.ran \notin {"none", "help"}
    => LET parsed == parseArgs(cli.argv, 1, "")
       IN /\ parsed = "" => cli.ran = "status"
          /\ parsed \in CommandTable => cli.ran = parsed
          /\ parsed \notin CommandTable \cup {""} => cli.ran = "unknown"


\* C31: after a real stop that returned success the supervisor has no entry
\* for the service.
C31_SuccessfulStopLeavesStopped ==
  (RealRun(last, "stop") /\ last.res.success) => ~loaded


\* C32: a real update that found the daemon running and sent an unload
\* request has, when it returns, sent a load request after that unload.
C32_LoadFollowsUnload ==
  (RealRun(last, "update") /\ last.wasRunning)
    => \A u \in Steps(last, "unload") :
         \E l \in Steps(last, "load") : u < l


\* the part of C32 that holds: a real update that returned success after
\* unloading the running daemon sent a load request after the unload
C32_LoadFollowsUnloadOnSuccess ==
  (RealRun(last, "update") /\ last.wasRunning /\ last.res.success)
    => \A u \in Steps(last, "unload") :
         \E l \in Steps(last, "load") : u < l


\* C33: after a real install that returned success the record file exists
\* and isInstalled() is true.
C33_SuccessfulInstallIsInstalled ==
  (RealRun(last, "install") /\ last.res.success)
    => (meta.kind # "absent" /\ isInstalled(World))


\* the part of C33 that holds: after a real install that returned success
\* server.ts exists, and the record exists when its write did not fail
C33_InstalledWhenRecordWritten ==
  (RealRun(last, "install") /\ last.res.success)
    => /\ files["server"].exists
       /\ (\E i \in Steps(last, "writeMeta") : last.log[i].ok)
            => isInstalled(World)


\* C34: a real update leaves the bytes of an existing preserveOnUpdate
\* component file that holds the user's content unchanged, whatever the state
\* of the record.
C34_UserContentSurvivesUpdate ==
  [][RealRun(last', "update")
       => \A c \in CompNames :
            (getComponent(c).preserveOnUpdate /\ files[c] = FileOf(UserBytes))
              => files'[c] = files[c]]_vars


\* C35: a real install with force on an installed system overwrites a
\* preserveOnUpdate component file holding the user's content only after a
\* successful backup of that file.
C35_ForcedInstallBacksUpUserContent ==
  [][(RealRun(last', "install") /\ last'.force /\ isInstalled(World))
       => \A c \in CompNames :
            (/\ getComponent(c).preserveOnUpdate
             /\ files[c] = FileOf(UserBytes)
             /\ files'[c] # files[c])
              => /\ \E b \in fbackups' : b.c = c /\ b.bytes = UserBytes
                 /\ \A i \in Steps(last', "copy") :
                      (last'.log[i].c = c /\ last'.log[i].ok)
                        => \E j \in Steps(last', "backup") :
                             j < i /\ last'.log[j].c = c /\ last'.log[j].ok]_vars


\* C36: after a real uninstall that returned success the supervisor has no
\* entry for the service.
C36_UninstallLeavesNothingLoaded ==
  (RealRun(last, "uninstall") /\ last.res.success) => ~loaded

\* the part of C36 that holds: a successful real uninstall whose unload
\* request was carried out by launchctl leaves no supervisor entry
C36_NothingLoadedWhenUnloadWorked ==
  (RealRun(last, "uninstall") /\ last.res.success
     /\ \E i \in Steps(last, "unload") : last.log[i].cmd = "ok")
    => ~loaded


\* C37: status run on a system whose record file and server.ts exist while
\* the record cannot be parsed returns a result and does not throw.
C37_StatusSurvivesMalformedRecord ==
  (last.op = "status" /\ isInstalled(World) /\ readMetadataIsNull(World))
    => ~last.res.threw

\* the part of C37 that holds: status on a complete record returns success,
\* on a system that is not installed it returns success = false, and it never
\* changes anything
C37_StatusOnReadableRecord ==
  [][last'.op = "status"
       => /\ World' = World
          /\ meta.kind = "ok" /\ files["server"].exists
               => (last'.res.success /\ ~last'.res.threw)
          /\ ~isInstalled(World) => Refused(last', "not_installed")]_vars


\* C38: an update without force on an installed system whose record holds
\* the version of the package returns success with already_up_to_date and
\* changes nothing: files, record, plist, backups and supervisor entry are as
\* before and no step (copy, backup, unload, load, record write) was taken,
\* whether or not a component is customized.
C38_UpToDateUpdateChangesNothing ==
  [][(/\ last'.op = "update"
      /\ ~last'.force
      /\ isInstalled(World)
      /\ getInstalledVersion(World) = pkgVersion)
       => /\ last'.res = Res(TRUE, "already_up_to_date")
          /\ last'.log = <<>>
          /\ World' = World]_vars

\* an update without force answered already_up_to_date while the user's
\* edited voices.json differs from the recorded hash, and left it alone
C38_Witness ==
  /\ last.op = "update"
  /\ ~last.force
  /\ ~last.dry
  /\ last.res = Res(TRUE, "already_up_to_date")
  /\ meta.kind = "ok"
  /\ meta.version = pkgVersion
  /\ DiffersFromStored(World, "voices")
  /\ fbackups = {}

====
